---- MODULE Spec2Model ----
(***************************************************************************)
(* A model of pdf_processor: the table validator, renderer, merger and     *)
(* detectors of table.py and the layout composer of main.py.               *)
(*                                                                         *)
(* Every function is modelled by the frame of one call of it: a variable   *)
(* holding a record of its arguments, locals (under the source's names)    *)
(* and position.  A frame that is not in use holds Idle.  Coordinates and  *)
(* thresholds are integers; texts are sequences of one-character strings.  *)
(***************************************************************************)
EXTENDS Integers, Sequences, FiniteSets, TLC

VARIABLES validate, render, merge, borders, align, layout, detect, process

vars == <<validate, render, merge, borders, align, layout, detect, process>>

Idle == [pc |-> "idle"]

\* ------------------------------------------------------------------ helpers

SeqsUpTo(S, n) == UNION {[1..k -> S] : k \in 0..n}

Min2(a, b) == IF a <= b THEN a ELSE b

Max2(a, b) == IF a >= b THEN a ELSE b

Abs(a) == IF a < 0 THEN 0 - a ELSE a

MinOf(S) == CHOOSE m \in S : \A n \in S : m <= n

MaxOf(S) == CHOOSE m \in S : \A n \in S : m >= n

Range(f) == {f[i] : i \in DOMAIN f}

\* pairs of numbers, compared as Python compares tuples
LexLess(a, b) == a[1] < b[1] \/ (a[1] = b[1] /\ a[2] < b[2])

\* the order in which a stable sort puts the items whose keys are keys[1..n]
RECURSIVE SortPerm(_)
SortPerm(keys) ==
  IF keys = <<>> THEN <<>>
  ELSE LET n == Len(keys)
           front == SortPerm(SubSeq(keys, 1, n - 1))
           k == Cardinality({i \in 1..(n - 1) : ~LexLess(keys[n], keys[front[i]])})
       IN SubSeq(front, 1, k) \o <<n>> \o SubSeq(front, k + 1, n - 1)

\* sorted(items, key=...) for the keys given item by item
StableSort(items, keys) ==
  LET perm == SortPerm(keys) IN [i \in 1..Len(items) |-> items[perm[i]]]

\* the members of a set of numbers in increasing order
RECURSIVE SortedSet(_)
SortedSet(S) ==
  IF S = {} THEN <<>>
  ELSE LET m == CHOOSE x \in S : \A y \in S : x <= y
       IN <<m>> \o SortedSet(S \ {m})

\* ------------------------------------------------------------------ texts

IsSpace(c) == c = " "

IsDigit(c) == c \in {"0", "1", "2", "3", "4", "5", "6", "7", "8", "9"}

RECURSIVE LStrip(_)
LStrip(s) == IF s # <<>> /\ IsSpace(Head(s)) THEN LStrip(Tail(s)) ELSE s

RECURSIVE RStrip(_)
RStrip(s) ==
  IF s # <<>> /\ IsSpace(s[Len(s)]) THEN RStrip(SubSeq(s, 1, Len(s) - 1)) ELSE s

\* str.strip()
Strip(s) == RStrip(LStrip(s))

\* str.split() with no separator: the maximal runs of non-space characters
RECURSIVE SplitWS(_)
SplitWS(s) ==
  LET t == LStrip(s)
      n == IF \E i \in 1..Len(t) : IsSpace(t[i])
           THEN CHOOSE i \in 1..Len(t) :
                  IsSpace(t[i]) /\ \A j \in 1..(i - 1) : ~IsSpace(t[j])
           ELSE Len(t) + 1
  IN IF t = <<>> THEN <<>>
     ELSE <<SubSeq(t, 1, n - 1)>> \o SplitWS(SubSeq(t, n, Len(t)))

StartsWith(s, p) == Len(p) <= Len(s) /\ SubSeq(s, 1, Len(p)) = p

\* the first index at which sep occurs in s, 0 if none
FindStr(s, sep) ==
  LET hits == {i \in 1..(Len(s) - Len(sep) + 1) :
                 SubSeq(s, i, i + Len(sep) - 1) = sep}
  IN IF hits = {} THEN 0 ELSE CHOOSE i \in hits : \A j \in hits : i <= j

\* str.split(sep) for a non-empty sep
RECURSIVE SplitSep(_, _)
SplitSep(s, sep) ==
  LET i == FindStr(s, sep) IN
  IF i = 0 THEN <<s>>
  ELSE <<SubSeq(s, 1, i - 1)>> \o SplitSep(SubSeq(s, i + Len(sep), Len(s)), sep)

\* sep.join(parts)
RECURSIVE Join(_, _)
Join(parts, sep) ==
  IF parts = <<>> THEN <<>>
  ELSE IF Len(parts) = 1 THEN parts[1]
  ELSE parts[1] \o sep \o Join(Tail(parts), sep)

\* ------------------------------------------------------------------ data model

\* TableCell(content) with the dataclass defaults
TableCell(content) ==
  [content |-> content, x0 |-> 0, y0 |-> 0, x1 |-> 0, y1 |-> 0,
   col_span |-> 1, alignment |-> "left", is_header |-> FALSE]

\* Table() with the dataclass defaults
Table == [cells |-> <<>>, x0 |-> 0, y0 |-> 0, x1 |-> 0, y1 |-> 0]

\* TableMetrics: the thresholds that table.py reads
TableMetrics(min_rows, min_cols, min_width, min_height, min_border_length) ==
  [min_rows |-> min_rows, min_cols |-> min_cols, min_width |-> min_width,
   min_height |-> min_height, min_border_length |-> min_border_length]

\* ------------------------------------------------------------------ validator

MutValidateTableCells(table, metrics) ==
  /\ table.cells # <<>>
  /\ ~(Len(table.cells) < metrics.min_rows)
  /\ ~(\E r \in 1..Len(table.cells) : Len(table.cells[r]) < metrics.min_cols)
  /\ ~(\E r \in 2..Len(table.cells) : Len(table.cells[r]) # Len(table.cells[1]))

validate_table_cells(table, metrics) ==
  /\ table.cells # <<>>
  /\ ~(Len(table.cells) < 2)
  /\ ~(\E r \in 1..Len(table.cells) : Len(table.cells[r]) < 2)
  /\ ~(\E r \in 2..Len(table.cells) : Len(table.cells[r]) # Len(table.cells[1]))

validate_table(table, metrics) ==
  LET width == table.x1 - table.x0
      height == table.y1 - table.y0
  IN /\ ~(width < metrics.min_width \/ height < metrics.min_height)
     /\ validate_table_cells(table, metrics)

\* bounds of the validator's inputs
MaxVRows == 2
MaxVCols == 2
MaxVCoord == 2

VShapes == SeqsUpTo(0..MaxVCols, MaxVRows)

VTable(shape, x0, y0, x1, y1) ==
  [cells |-> [r \in 1..Len(shape) |-> [c \in 1..shape[r] |-> TableCell(<<"a">>)]],
   x0 |-> x0, y0 |-> y0, x1 |-> x1, y1 |-> y1]

VMetrics ==
  {TableMetrics(mr, mc, mw, mh, 1) :
     mr \in {1, 2, 3}, mc \in {1, 2, 3}, mw \in {1, 2}, mh \in {1, 2}}

InitValidate ==
  \E shape \in VShapes, x0 \in {0, 1}, x1 \in 0..MaxVCoord,
     y0 \in {0, 1}, y1 \in 0..MaxVCoord, m \in VMetrics :
    /\ validate = [pc |-> "call", table |-> VTable(shape, x0, y0, x1, y1),
                   metrics |-> m]
    /\ render = Idle
    /\ merge = Idle
    /\ borders = Idle
    /\ align = Idle
    /\ layout = Idle
    /\ detect = Idle
    /\ process = Idle

\* one call of validate_table and one of validate_table_cells on the same input
ValidateTable ==
  /\ validate.pc = "call"
  /\ validate' = [pc |-> "done", table |-> validate.table,
                  metrics |-> validate.metrics,
                  result |-> validate_table(validate.table, validate.metrics),
                  cells_result |->
                    validate_table_cells(validate.table, validate.metrics)]
  /\ UNCHANGED <<render, merge, borders, align, layout, detect, process>>

NextValidate == ValidateTable

SpecValidate == InitValidate /\ [][NextValidate]_vars

\* ------------------------------------------------------------------ C1

RowsOk(t) ==
  /\ Len(t.cells) >= 2
  /\ \A r \in 1..Len(t.cells) : Len(t.cells[r]) >= 2
  /\ \A r \in 1..Len(t.cells) : Len(t.cells[r]) = Len(t.cells[1])

RECURSIVE Formatted(_)
Formatted(cells) ==
  IF cells = <<>> THEN <<>>
  ELSE LET cell == Head(cells)
           text == Strip(cell.content)
       IN IF cell.col_span > 1
          THEN <<text>> \o [i \in 1..(cell.col_span - 1) |-> <<>>]
                 \o Formatted(Tail(cells))
          ELSE <<text>> \o Formatted(Tail(cells))

format_row(cells) ==
  LET formatted == Formatted(cells)
      parts == [i \in 1..Len(formatted) |->
                  IF formatted[i] # <<>>
                  THEN <<" ">> \o formatted[i] \o <<" ">>
                  ELSE <<" ">>]
  IN <<"|">> \o Join(parts, <<"|">>) \o <<"|">>

\* the alignment entries of the header cells
RECURSIVE Alignments(_)
Alignments(cells) ==
  IF cells = <<>> THEN <<>>
  ELSE LET cell == Head(cells)
           own == IF cell.alignment = "center" THEN <<":", "-", "-", "-", ":">>
                  ELSE IF cell.alignment = "right" THEN <<"-", "-", "-", ":">>
                  ELSE <<":", "-", "-", "-">>
       IN <<own>>
            \o (IF cell.col_span > 1
                THEN [i \in 1..(cell.col_span - 1) |-> <<":", "-", "-", "-">>]
                ELSE <<>>)
            \o Alignments(Tail(cells))

table_to_markdown(table) ==
  IF table.cells = <<>> THEN <<>>
  ELSE LET header_row == format_row(table.cells[1])
           alignment_row ==
             <<"|", " ">> \o Join(Alignments(table.cells[1]), <<" ", "|", " ">>)
               \o <<" ", "|">>
           data_rows == [r \in 1..(Len(table.cells) - 1) |->
                           format_row(table.cells[r + 1])]
       IN Join(<<header_row, alignment_row>> \o data_rows, <<"\n">>)

\* bounds of the renderer's inputs
MaxRRows == 2
MaxRCols == 2

RCell(content, col_span, alignment) ==
  [TableCell(content) EXCEPT !.col_span = col_span, !.alignment = alignment]

RCells ==
  {RCell(<<"a">>, 1, "left"), RCell(<<>>, 1, "left"),
   RCell(<<" ", "b", " ">>, 1, "center"), RCell(<<"a", "|", "b">>, 1, "right"),
   RCell(<<"a">>, 2, "center"), RCell(<<"b">>, 3, "right")}

RRows == SeqsUpTo(RCells, MaxRCols) \ {<<>>}

InitRender ==
  \E cells \in SeqsUpTo(RRows, MaxRRows) :
    /\ render = [pc |-> "call", table |-> [Table EXCEPT !.cells = cells]]
    /\ validate = Idle
    /\ merge = Idle
    /\ borders = Idle
    /\ align = Idle
    /\ layout = Idle
    /\ detect = Idle
    /\ process = Idle

TableToMarkdown ==
  /\ render.pc = "call"
  /\ render' = [pc |-> "done", table |-> render.table,
                markdown |-> table_to_markdown(render.table)]
  /\ UNCHANGED <<validate, merge, borders, align, layout, detect, process>>

NextRender == TableToMarkdown

SpecRender == InitRender /\ [][NextRender]_vars

\* ------------------------------------------------------------------ C2, C3

\* the lines of a rendered table
MdLines(md) == SplitSep(md, <<"\n">>)

\* the cells of one line: split on the pipe, the outer delimiters dropped, trimmed
MdCells(line) ==
  LET pieces == SplitSep(line, <<"|">>)
  IN [i \in 1..(Len(pieces) - 2) |-> Strip(pieces[i + 1])]

\* C2: every line of the rendering of a table with at least one row (the
\* header line, the alignment line and each data line) holds as many
\* pipe-delimited cells as the header line.
C2_SameCellCount ==
  (render.pc = "done" /\ Len(render.table.cells) >= 1) =>
    LET lines == MdLines(render.markdown)
    IN \A i \in 1..Len(lines) : Len(MdCells(lines[i])) = Len(MdCells(lines[1]))

\* C3: splitting the non-alignment lines of the rendering on the pipe gives,
\* row by row and cell by cell, the trimmed contents of the table's cells.
C3_RoundTrip ==
  (render.pc = "done" /\ Len(render.table.cells) >= 1) =>
    LET lines == MdLines(render.markdown)
        cells == render.table.cells
    IN /\ Len(lines) = Len(cells) + 1
       /\ \A r \in 1..Len(cells) :
            MdCells(lines[IF r = 1 THEN 1 ELSE r + 1]) =
              [c \in 1..Len(cells[r]) |-> Strip(cells[r][c].content)]

\* ------------------------------------------------------------------ merger

\* sorted(tables, key=lambda t: (t.y0, t.x0))
SortedByKey(tables) ==
  StableSort(tables, [i \in 1..Len(tables) |-> <<tables[i].y0, tables[i].x0>>])

\* the test of lines 328-330
MutOverlapsNoLeft(current, next_table) ==
  /\ current.y1 >= next_table.y0
  /\ current.x1 >= next_table.x0

MutOverlapsStrict(current, next_table) ==
  /\ current.y1 > next_table.y0
  /\ current.x1 > next_table.x0
  /\ current.x0 < next_table.x1

Overlaps(current, next_table) ==
  /\ current.y1 >= next_table.y0
  /\ current.x1 >= next_table.x0
  /\ current.x0 <= next_table.x1

\* lines 332-337: current after next_table was merged into it
Merged(current, next_table) ==
  [x0 |-> Min2(current.x0, next_table.x0),
   y0 |-> Min2(current.y0, next_table.y0),
   x1 |-> Max2(current.x1, next_table.x1),
   y1 |-> Max2(current.y1, next_table.y1),
   cells |-> IF current.cells # <<>> /\ next_table.cells # <<>>
             THEN current.cells \o next_table.cells
             ELSE current.cells]

\* bound of the merger's input: the number of candidates
MaxTables == 3

\* the coordinates of the candidates' bounding boxes
MCoords == {0, 1}

\* the rows of the k-th candidate when it has any: two rows of k + 1 cells
MRows(k) ==
  LET label == <<"a", "b", "c", "d", "e", "f", "g", "h">>
  IN [r \in 1..2 |-> [c \in 1..(k + 1) |-> TableCell(<<label[k]>>)]]

\* candidates' bounding boxes, well-formed as the detectors build them
MBoxes ==
  {b \in [x0 : MCoords, y0 : MCoords, x1 : MCoords, y1 : MCoords] :
     b.x0 <= b.x1 /\ b.y0 <= b.y1}

MTable(box, cells) ==
  [x0 |-> box.x0, y0 |-> box.y0, x1 |-> box.x1, y1 |-> box.y1, cells |-> cells]

InitMerge ==
  \E n \in 0..MaxTables :
    \E boxes \in [1..n -> MBoxes], empty \in [1..n -> BOOLEAN] :
      LET tables == [k \in 1..n |->
                       MTable(boxes[k], IF empty[k] THEN <<>> ELSE MRows(k))]
      IN /\ merge = [pc |-> "call", round |-> 1, first_arg |-> tables,
                     arg |-> tables]
         /\ validate = Idle
         /\ render = Idle
         /\ borders = Idle
         /\ align = Idle
         /\ layout = Idle
         /\ detect = Idle
         /\ process = Idle

\* lines 316-317
MergeEmpty ==
  /\ merge.pc = "call"
  /\ merge.arg = <<>>
  /\ merge' = [pc |-> "done", round |-> merge.round,
               first_arg |-> merge.first_arg, arg |-> merge.arg,
               result |-> <<>>]
  /\ UNCHANGED <<validate, render, borders, align, layout, detect, process>>

\* lines 320-324
MergeStart ==
  /\ merge.pc = "call"
  /\ merge.arg # <<>>
  /\ LET tables == SortedByKey(merge.arg)
     IN merge' = [pc |-> "loop", round |-> merge.round,
                  first_arg |-> merge.first_arg, arg |-> merge.arg,
                  tables |-> tables, merged |-> <<>>, current |-> tables[1],
                  i |-> 2]
  /\ UNCHANGED <<validate, render, borders, align, layout, detect, process>>

\* lines 326-337: one iteration that merges next_table into current
MergeFuse ==
  /\ merge.pc = "loop"
  /\ merge.i <= Len(merge.tables)
  /\ Overlaps(merge.current, merge.tables[merge.i])
  /\ merge' = [merge EXCEPT
                 !.current = Merged(merge.current, merge.tables[merge.i]),
                 !.i = merge.i + 1]
  /\ UNCHANGED <<validate, render, borders, align, layout, detect, process>>

\* lines 326-330, 338-340: one iteration that flushes current
MergeFlush ==
  /\ merge.pc = "loop"
  /\ merge.i <= Len(merge.tables)
  /\ ~Overlaps(merge.current, merge.tables[merge.i])
  /\ merge' = [merge EXCEPT
                 !.merged = Append(merge.merged, merge.current),
                 !.current = merge.tables[merge.i],
                 !.i = merge.i + 1]
  /\ UNCHANGED <<validate, render, borders, align, layout, detect, process>>

\* lines 342-343
MergeReturn ==
  /\ merge.pc = "loop"
  /\ merge.i > Len(merge.tables)
  /\ merge' = [pc |-> "done", round |-> merge.round,
               first_arg |-> merge.first_arg, arg |-> merge.arg,
               result |-> Append(merge.merged, merge.current)]
  /\ UNCHANGED <<validate, render, borders, align, layout, detect, process>>

\* merge_overlapping_tables applied to its own result
MergeAgain ==
  /\ merge.pc = "done"
  /\ merge.round = 1
  /\ merge' = [pc |-> "call", round |-> 2, first_arg |-> merge.first_arg,
               arg |-> merge.result]
  /\ UNCHANGED <<validate, render, borders, align, layout, detect, process>>

NextMerge ==
  \/ MergeEmpty
  \/ MergeStart
  \/ MergeFuse
  \/ MergeFlush
  \/ MergeReturn
  \/ MergeAgain

SpecMerge == InitMerge /\ [][NextMerge]_vars

\* ------------------------------------------------------------------ C4, C5, C6

\* two bounding boxes share a point on both axes
BoxesOverlap(a, b) ==
  /\ a.x0 <= b.x1
  /\ b.x0 <= a.x1
  /\ a.y0 <= b.y1
  /\ b.y0 <= a.y1

PairwiseDisjoint(ts) ==
  \A i \in 1..Len(ts) : \A j \in 1..Len(ts) :
    i < j => ~BoxesOverlap(ts[i], ts[j])

OrderedByKey(ts) ==
  \A i \in 1..Len(ts) : \A j \in 1..Len(ts) :
    i < j => (ts[i].y0 < ts[j].y0 \/ (ts[i].y0 = ts[j].y0 /\ ts[i].x0 <= ts[j].x0))

\* C4: merging pairwise non-overlapping tables returns exactly those tables,
\* boxes and rows unchanged, ordered by (y0, x0), and merging that result
\* again returns the same list.
C4_DisjointUnchanged ==
  (merge.pc = "done" /\ PairwiseDisjoint(merge.first_arg)) =>
    /\ Len(merge.result) = Len(merge.first_arg)
    /\ Range(merge.result) = Range(merge.first_arg)
    /\ OrderedByKey(merge.result)
    /\ merge.round = 2 => merge.result = merge.arg

\* three disjoint candidates given out of order, merged twice
C4_Witness ==
  /\ merge.pc = "done"
  /\ merge.round = 2
  /\ Len(merge.first_arg) = 3
  /\ PairwiseDisjoint(merge.first_arg)
  /\ merge.first_arg # merge.arg
  /\ \E i \in 1..3 : merge.first_arg[i].cells # <<>>

CurrentIsRunningUnion ==
  merge.pc = "loop" =>
    \E j \in 1..(merge.i - 1) :
      LET run == {merge.tables[k] : k \in j..(merge.i - 1)}
      IN /\ merge.current.x0 = MinOf({t.x0 : t \in run})
         /\ merge.current.y0 = MinOf({t.y0 : t \in run})
         /\ merge.current.x1 = MaxOf({t.x1 : t \in run})
         /\ merge.current.y1 = MaxOf({t.y1 : t \in run})

\* one iteration of the walk, as the claim describes it
WalkStep ==
  (merge.pc = "loop" /\ merge.i <= Len(merge.tables) /\ merge' # merge) =>
    LET current == merge.current
        candidate == merge.tables[merge.i]
    IN IF /\ current.y1 >= candidate.y0
          /\ current.x1 >= candidate.x0
          /\ current.x0 <= candidate.x1
       THEN /\ merge'.merged = merge.merged
            /\ merge'.current.x0 = Min2(current.x0, candidate.x0)
            /\ merge'.current.y0 = Min2(current.y0, candidate.y0)
            /\ merge'.current.x1 = Max2(current.x1, candidate.x1)
            /\ merge'.current.y1 = Max2(current.y1, candidate.y1)
       ELSE /\ merge'.merged = Append(merge.merged, current)
            /\ merge'.current = candidate

\* C6: walking the candidates in (y0, x0) order, a candidate is fused into the
\* running current table iff current.y1 >= candidate.y0, current.x1 >=
\* candidate.x0 and current.x0 <= candidate.x1, current being the running
\* table with its already-unioned box; otherwise current is flushed unchanged
\* and the candidate becomes the new current.
C6_FuseIff ==
  /\ [](OrderedByKey(IF merge.pc = "loop" THEN merge.tables ELSE <<>>))
  /\ []CurrentIsRunningUnion
  /\ [][WalkStep]_vars

\* the walk stands before a third candidate that overlaps the union of the
\* first two but not the first alone
C6_Witness ==
  /\ merge.pc = "loop"
  /\ merge.i = 3
  /\ Len(merge.tables) = 3
  /\ merge.merged = <<>>
  /\ merge.current # merge.tables[1]
  /\ ~BoxesOverlap(merge.tables[1], merge.tables[3])
  /\ BoxesOverlap(merge.current, merge.tables[3])

\* ------------------------------------------------------------------ pages

\* TextBlock of text.py
TextBlock(text, x0, y0, x1, y1, font, font_size) ==
  [text |-> text, x0 |-> x0, y0 |-> y0, x1 |-> x1, y1 |-> y1,
   font |-> font, font_size |-> font_size]

\* a drawing of page.get_drawings(): its bounding rectangle path["rect"]
Rect(x0, y0, x1, y1) == [x0 |-> x0, y0 |-> y0, x1 |-> x1, y1 |-> y1]

\* a page: its drawings and, for page.get_text("dict"), its text blocks, each
\* block holding one line of one span under the block's own bounding box
\* raises is the set of the document engine's calls that raise for this page
Page(drawings, spans) == [drawings |-> drawings, spans |-> spans, raises |-> {}]

\* font.endswith("-Bold") over the fonts of the model
EndsWithBold(font) == font \in {"Helvetica-Bold", "Times-Bold"}

\* extract_text_blocks: table is <<>> for None, <<t>> for a table; an
\* exception of page.get_text is caught and gives [] (lines 460-462)
extract_text_blocks(page, table) ==
  LET inside(b) ==
        table = <<>> \/
          (/\ b.x0 >= table[1].x0 - 2
           /\ b.x1 <= table[1].x1 + 2
           /\ b.y0 >= table[1].y0 - 2
           /\ b.y1 <= table[1].y1 + 2)
      keep(b) == inside(b) /\ Strip(b.text) # <<>>
      kept == SelectSeq(page.spans, keep)
  IN IF "get_text" \in page.raises THEN <<>>
     ELSE [i \in 1..Len(kept) |-> [kept[i] EXCEPT !.text = Strip(kept[i].text)]]

\* ------------------------------------------------------------------ cell grid builder

\* lines 475-492: the rows of blocks, each sorted by x0
RECURSIVE GroupRows(_, _, _, _)
GroupRows(blocks, current_row, current_y, rows) ==
  LET flush(row) ==
        IF row = <<>> THEN rows
        ELSE Append(rows, StableSort(row, [i \in 1..Len(row) |-> <<row[i].x0, 0>>]))
  IN IF blocks = <<>> THEN flush(current_row)
     ELSE LET block == Head(blocks)
          IN IF Abs(block.y0 - current_y) > 5
             THEN GroupRows(Tail(blocks), <<block>>, block.y0, flush(current_row))
             ELSE GroupRows(Tail(blocks), Append(current_row, block), current_y, rows)

\* lines 495-506: the column boundaries, each doubled ((a + b) / 2 is a
\* half-integer, and the code only compares a coordinate with it)
ColumnBounds2(rows) ==
  LET all_x_coords ==
        UNION {UNION {{rows[r][b].x0, rows[r][b].x1} : b \in 1..Len(rows[r])} :
                 r \in 1..Len(rows)}
      x_coords == SortedSet(all_x_coords)
  IN [i \in 1..(Len(x_coords) - 1) |-> x_coords[i] + x_coords[i + 1]]

MutSkipTo(x0, current_col, bounds2) == current_col

\* lines 516-519: the column the cursor stands at after the empty cells
RECURSIVE SkipTo(_, _, _)
SkipTo(x0, current_col, bounds2) ==
  IF current_col < Len(bounds2) /\ 2 * x0 > bounds2[current_col + 1]
  THEN SkipTo(x0, current_col + 1, bounds2)
  ELSE current_col

Empties(n) == [i \in 1..n |-> TableCell(<<>>)]

\* lines 511-532: the cells of one row
RECURSIVE RowCells(_, _, _, _)
RowCells(row_blocks, current_col, row_cells, bounds2) ==
  IF row_blocks = <<>>
  THEN row_cells \o Empties(Max2(0, Len(bounds2) + 1 - current_col))
  ELSE LET block == Head(row_blocks)
           col == SkipTo(block.x0, current_col, bounds2)
           cell == [TableCell(block.text) EXCEPT
                      !.is_header = EndsWithBold(block.font),
                      !.alignment = IF block.font_size > 12 THEN "center" ELSE "left"]
       IN RowCells(Tail(row_blocks), col + 1,
                   row_cells \o Empties(col - current_col) \o <<cell>>, bounds2)

convert_blocks_to_cells(blocks) ==
  IF blocks = <<>> THEN <<>>
  ELSE LET sorted == StableSort(blocks, [i \in 1..Len(blocks) |-> <<blocks[i].y0, 0>>])
           rows == GroupRows(sorted, <<>>, sorted[1].y0, <<>>)
           column_bounds2 == ColumnBounds2(rows)
       IN [r \in 1..Len(rows) |-> RowCells(rows[r], 0, <<>>, column_bounds2)]

\* ------------------------------------------------------------------ border detector

\* lines 147-158
HorizontalLines(paths, metrics) ==
  {Rect(Min2(p.x0, p.x1), p.y0, Max2(p.x0, p.x1), p.y1) :
     p \in {q \in Range(paths) :
              Abs(q.y1 - q.y0) <= 2 /\ Abs(q.x1 - q.x0) >= metrics.min_border_length}}

VerticalLines(paths, metrics) ==
  {Rect(p.x0, Min2(p.y0, p.y1), p.x1, Max2(p.y0, p.y1)) :
     p \in {q \in Range(paths) :
              /\ ~(Abs(q.y1 - q.y0) <= 2 /\ Abs(q.x1 - q.x0) >= metrics.min_border_length)
              /\ Abs(q.x1 - q.x0) <= 2
              /\ Abs(q.y1 - q.y0) >= metrics.min_border_length}}

\* for non-empty sets of lines
detect_table_from_lines(horizontal_lines, vertical_lines) ==
  [Table EXCEPT
     !.x0 = MinOf({Min2(l.x0, l.x1) : l \in vertical_lines}),
     !.y0 = MinOf({Min2(l.y0, l.y1) : l \in horizontal_lines}),
     !.x1 = MaxOf({Max2(l.x0, l.x1) : l \in vertical_lines}),
     !.y1 = MaxOf({Max2(l.y0, l.y1) : l \in horizontal_lines})]

\* lines 140-181, the body of the try statement: what it returns, or that it
\* raised (page.get_drawings is the call of the body that may raise)
BordersTry(page, metrics) ==
  LET horizontal_lines == HorizontalLines(page.drawings, metrics)
      vertical_lines == VerticalLines(page.drawings, metrics)
      value ==
        IF horizontal_lines = {} \/ vertical_lines = {} THEN <<>>
        ELSE LET bounds == detect_table_from_lines(horizontal_lines, vertical_lines)
                 blocks == extract_text_blocks(page, <<bounds>>)
                 table == [bounds EXCEPT !.cells = convert_blocks_to_cells(blocks)]
             IN IF blocks # <<>> /\ validate_table_cells(table, metrics)
                THEN <<table>>
                ELSE <<>>
  IN IF "get_drawings" \in page.raises
     THEN [raised |-> TRUE, value |-> <<>>]
     ELSE [raised |-> FALSE, value |-> value]

MutBordersExcept(outcome) == outcome

\* lines 182-184: except Exception: return []
BordersExcept(outcome) ==
  IF outcome.raised THEN [raised |-> FALSE, value |-> <<>>] ELSE outcome

\* the call of detect_tables_from_borders: its value, or the exception that
\* leaves it
BordersCall(page, metrics) == BordersExcept(BordersTry(page, metrics))

detect_tables_from_borders(page, metrics) == BordersCall(page, metrics).value

\* bound of the border detector's input: the number of spans on the page
MaxSpans == 4

\* TableMetrics() with the defaults of lines 63-78
DefaultMetrics == TableMetrics(2, 2, 50, 20, 10)

\* two horizontal and two vertical border lines around (5, 5)-(55, 50)
Frame ==
  <<Rect(5, 5, 55, 5), Rect(5, 50, 55, 50), Rect(5, 5, 5, 50), Rect(55, 5, 55, 50)>>

\* a frame around (5, 5)-(45, 50), narrower than the default min_width
NarrowFrame ==
  <<Rect(5, 5, 45, 5), Rect(5, 50, 45, 50), Rect(5, 5, 5, 50), Rect(45, 5, 45, 50)>>

BDrawings == {Frame, NarrowFrame, SubSeq(Frame, 1, 2), <<>>}

\* the left and right edges a span may have, and its top edge
BEdges == {<<10, 20>>, <<10, 22>>, <<30, 40>>, <<30, 45>>, <<10, 40>>}

BTops == {10, 30}

\* the k-th span of a page
BSpan(k, edges, top) ==
  LET label == <<"N", "A", "L", "3", "x", "y", "z", "w">>
  IN TextBlock(<<label[k]>>, edges[1], top, edges[2], top + 8, "Helvetica", 10)

InitBorders ==
  \E n \in 0..MaxSpans, drawings \in BDrawings :
    \E edges \in [1..n -> BEdges], tops \in [1..n -> BTops] :
      /\ borders = [pc |-> "call",
                    page |-> Page(drawings, [k \in 1..n |-> BSpan(k, edges[k], tops[k])]),
                    metrics |-> DefaultMetrics]
      /\ validate = Idle
      /\ render = Idle
      /\ merge = Idle
      /\ align = Idle
      /\ layout = Idle
      /\ detect = Idle
      /\ process = Idle

DetectTablesFromBorders ==
  /\ borders.pc = "call"
  /\ borders' = [pc |-> "detected", page |-> borders.page,
                 metrics |-> borders.metrics,
                 result |-> detect_tables_from_borders(borders.page, borders.metrics)]
  /\ UNCHANGED <<validate, render, merge, align, layout, detect, process>>

\* table_to_markdown of every table the detector returned
BordersToMarkdown ==
  /\ borders.pc = "detected"
  /\ borders' = [pc |-> "rendered", page |-> borders.page,
                 metrics |-> borders.metrics, result |-> borders.result,
                 markdown |-> [i \in 1..Len(borders.result) |->
                                 table_to_markdown(borders.result[i])]]
  /\ UNCHANGED <<validate, render, merge, align, layout, detect, process>>

NextBorders ==
  \/ DetectTablesFromBorders
  \/ BordersToMarkdown

SpecBorders == InitBorders /\ [][NextBorders]_vars

\* ------------------------------------------------------------------ C7

\* the spans of the page whose top edge is y, left to right
RowOf(page, y) ==
  LET row == SelectSeq(page.spans, LAMBDA b : b.y0 = y)
  IN StableSort(row, [i \in 1..Len(row) |-> <<row[i].x0, 0>>])

\* the page is a bordered grid of R rows and C columns, R, C >= 2: the spans
\* of a row stand side by side, and the spans of a column share their left
\* edge (their widths may differ)
GridPage(page) ==
  LET tops == {page.spans[i].y0 : i \in 1..Len(page.spans)}
      lefts == {page.spans[i].x0 : i \in 1..Len(page.spans)}
  IN /\ page.drawings = Frame
     /\ \A i \in 1..Len(page.spans) :
          LET b == page.spans[i]
          IN b.x0 >= 5 /\ b.x1 <= 55 /\ b.y0 >= 5 /\ b.y1 <= 50 /\ b.x0 < b.x1
     /\ Cardinality(tops) >= 2
     /\ Cardinality(lefts) >= 2
     /\ \A y \in tops : \A z \in tops : y # z => Abs(y - z) > 5
     /\ \A y \in tops :
          LET row == RowOf(page, y)
          IN /\ Len(row) = Cardinality(lefts)
             /\ {row[i].x0 : i \in 1..Len(row)} = lefts
             /\ \A i \in 1..(Len(row) - 1) : row[i].x1 < row[i + 1].x0

\* the line `| t1 | t2 | ... |` of the texts
PipeLine(texts) ==
  <<"|", " ">> \o Join(texts, <<" ", "|", " ">>) \o <<" ", "|">>

\* C7: for a bordered grid of R x C spans the border detector returns one
\* table of R rows of exactly C cells holding the span texts, and its
\* rendering is the header line of the first row's texts, one alignment line
\* and one line per further row, with no additional empty cells.
C7_BorderGrid ==
  (borders.pc = "rendered" /\ GridPage(borders.page)) =>
    LET page == borders.page
        tops == SortedSet({page.spans[i].y0 : i \in 1..Len(page.spans)})
        texts == [r \in 1..Len(tops) |->
                    LET row == RowOf(page, tops[r])
                    IN [c \in 1..Len(row) |-> row[c].text]]
    IN /\ Len(borders.result) = 1
       /\ Len(borders.result[1].cells) = Len(tops)
       /\ \A r \in 1..Len(tops) :
            [c \in 1..Len(borders.result[1].cells[r]) |->
               borders.result[1].cells[r][c].content] = texts[r]
       /\ LET lines == MdLines(borders.markdown[1])
          IN /\ Len(lines) = Len(tops) + 1
             /\ lines[1] = PipeLine(texts[1])
             /\ \A r \in 2..Len(tops) : lines[r + 1] = PipeLine(texts[r])

\* ------------------------------------------------------------------ alignment detector

HasDigit(word) == \E i \in 1..Len(word) : IsDigit(word[i])

\* is_potential_table_row (lines 237-263)
is_potential_table_row(block, metrics) ==
  LET text == Strip(block.text)
      words == SplitWS(text)
      num_count == Cardinality({i \in 1..Len(words) : HasDigit(words[i])})
      pieces == Tail(SplitSep(text, words[1]))
      kept == SelectSeq(pieces, LAMBDA p : Strip(p) # <<>>)
      spaces == [i \in 1..Len(kept) |-> Len(kept[i])]
  IN IF text = <<>> THEN FALSE
     ELSE IF "|" \in Range(text) THEN TRUE
     ELSE IF Len(words) < 2 THEN FALSE
     ELSE IF num_count > 0 /\ num_count < Len(words) THEN TRUE
     ELSE /\ spaces # <<>>
          /\ \A i \in 1..Len(spaces) : Abs(spaces[i] - spaces[1]) <= 1

RECURSIVE GCD(_, _)
GCD(a, b) == IF b = 0 THEN a ELSE GCD(b, a % b)

\* the quotient n / d of line 304, kept exact as a fraction in lowest terms
Rat(n, d) ==
  LET g == GCD(n, d)
  IN [num |-> n \div g, den |-> d \div g]

\* lines 294-298: positions[i], the offset of word i; current_pos after the loop
RECURSIVE Positions(_, _)
Positions(words, current_pos) ==
  IF words = <<>> THEN <<>>
  ELSE <<current_pos>> \o Positions(Tail(words), current_pos + Len(Head(words)) + 1)

\* add_block_to_table (lines 266-311): the table after the call
add_block_to_table(table, block, metrics) ==
  LET text == Strip(block.text)
      x0 == IF table.x0 # 0 THEN Min2(table.x0, block.x0) ELSE block.x0
      x1 == IF table.x1 # 0 THEN Max2(table.x1, block.x1) ELSE block.x1
      y0 == IF table.y0 # 0 THEN Min2(table.y0, block.y0) ELSE block.y0
      y1 == IF table.y1 # 0 THEN Max2(table.y1, block.y1) ELSE block.y1
      raw_cells == SplitSep(text, <<"|">>)
      nonempty == SelectSeq(raw_cells, LAMBDA c : Strip(c) # <<>>)
      piped == [i \in 1..Len(nonempty) |->
                  [TableCell(Strip(nonempty[i])) EXCEPT
                     !.x0 = block.x0, !.x1 = block.x1,
                     !.y0 = block.y0, !.y1 = block.y1]]
      words == SplitWS(text)
      positions == Positions(words, 0)
      current_pos == Len(Join(words, <<" ">>)) + 1
      width == block.x1 - block.x0
      spaced == IF Len(words) >= metrics.min_cols
                THEN [i \in 1..Len(words) |->
                        [TableCell(words[i]) EXCEPT
                           !.x0 = Rat(block.x0 * current_pos + positions[i] * width,
                                      current_pos),
                           !.x1 = Rat(block.x0 * current_pos
                                        + (positions[i] + Len(words[i])) * width,
                                      current_pos),
                           !.y0 = block.y0, !.y1 = block.y1]]
                ELSE <<>>
      cells == IF "|" \in Range(text) THEN piped ELSE spaced
  IN [cells |-> IF cells # <<>> THEN Append(table.cells, cells) ELSE table.cells,
      x0 |-> x0, y0 |-> y0, x1 |-> x1, y1 |-> y1]

\* lines 209-215: the bounds of current_table after the update
UpdateBounds(current_table, text_block) ==
  [current_table EXCEPT
     !.x0 = IF current_table.x0 = 0 \/ text_block.x0 < current_table.x0
            THEN text_block.x0 ELSE current_table.x0,
     !.y0 = IF current_table.y0 = 0 \/ text_block.y0 < current_table.y0
            THEN text_block.y0 ELSE current_table.y0,
     !.x1 = Max2(current_table.x1, text_block.x1),
     !.y1 = Max2(current_table.y1, text_block.y1)]

\* bound of the alignment detector's input: the number of spans on the page
MaxLines == 3

\* "a b", "a a", "c 1", "x", "a||b", "a   b c"
ATexts ==
  {<<"a", " ", "b">>, <<"a", " ", "a">>, <<"c", " ", "1">>, <<"x">>,
   <<"a", "|", "|", "b">>, <<"a", " ", " ", " ", "b", " ", "c">>}

\* the left and right edge of a span
AEdges == {<<0, 55>>, <<10, 65>>, <<10, 40>>}

\* the top edge of the first line of the page
ABases == {0, 10}

AMetrics == {DefaultMetrics, TableMetrics(2, 3, 50, 20, 10)}

\* the k-th of n spans: one line every 10 units, listed top-down or bottom-up
ASpan(k, n, text, edges, base, bottom_up) ==
  LET top == base + 10 * (IF bottom_up THEN n - k ELSE k - 1)
  IN TextBlock(text, edges[1], top, edges[2], top + 12, "Helvetica", 10)

InitAlign ==
  \E n \in 0..MaxLines, base \in ABases, bottom_up \in BOOLEAN, metrics \in AMetrics :
    \E texts \in [1..n -> ATexts], edges \in [1..n -> AEdges] :
      /\ align = [pc |-> "call",
                  page |-> Page(<<>>, [k \in 1..n |->
                             ASpan(k, n, texts[k], edges[k], base, bottom_up)]),
                  metrics |-> metrics]
      /\ validate = Idle
      /\ render = Idle
      /\ merge = Idle
      /\ borders = Idle
      /\ layout = Idle
      /\ detect = Idle
      /\ process = Idle

\* lines 190-196: blocks, sorted by (y0, x0)
SortedBlocks(page) ==
  LET blocks == extract_text_blocks(page, <<>>)
  IN StableSort(blocks, [i \in 1..Len(blocks) |-> <<blocks[i].y0, blocks[i].x0>>])

\* lines 191-193: no blocks
AlignEmpty ==
  /\ align.pc = "call"
  /\ SortedBlocks(align.page) = <<>>
  /\ align' = [pc |-> "done", page |-> align.page, metrics |-> align.metrics,
               result |-> <<>>]
  /\ UNCHANGED <<validate, render, merge, borders, layout, detect, process>>

\* lines 196-199: current_table is <<>> for None
AlignStart ==
  /\ align.pc = "call"
  /\ SortedBlocks(align.page) # <<>>
  /\ align' = [pc |-> "loop", page |-> align.page, metrics |-> align.metrics,
               blocks |-> SortedBlocks(align.page), i |-> 1,
               tables |-> <<>>, current_table |-> <<>>]
  /\ UNCHANGED <<validate, render, merge, borders, layout, detect, process>>

\* lines 203-218: the block is a potential table row
AlignRow ==
  /\ align.pc = "loop"
  /\ align.i <= Len(align.blocks)
  /\ is_potential_table_row(align.blocks[align.i], align.metrics)
  /\ LET text_block == align.blocks[align.i]
         current_table == IF align.current_table = <<>> THEN Table
                          ELSE align.current_table[1]
     IN align' = [align EXCEPT
                    !.i = @ + 1,
                    !.current_table =
                      <<add_block_to_table(UpdateBounds(current_table, text_block),
                                           text_block, align.metrics)>>]
  /\ UNCHANGED <<validate, render, merge, borders, layout, detect, process>>

\* lines 220-224: the block ends the open table
AlignClose ==
  /\ align.pc = "loop"
  /\ align.i <= Len(align.blocks)
  /\ ~is_potential_table_row(align.blocks[align.i], align.metrics)
  /\ align.current_table # <<>>
  /\ align' = [align EXCEPT
                 !.i = @ + 1,
                 !.tables = IF validate_table(align.current_table[1], align.metrics)
                            THEN Append(@, align.current_table[1]) ELSE @,
                 !.current_table = <<>>]
  /\ UNCHANGED <<validate, render, merge, borders, layout, detect, process>>

\* lines 201-220: the block is no row and no table is open
AlignSkip ==
  /\ align.pc = "loop"
  /\ align.i <= Len(align.blocks)
  /\ ~is_potential_table_row(align.blocks[align.i], align.metrics)
  /\ align.current_table = <<>>
  /\ align' = [align EXCEPT !.i = @ + 1]
  /\ UNCHANGED <<validate, render, merge, borders, layout, detect, process>>

\* lines 226-231
AlignReturn ==
  /\ align.pc = "loop"
  /\ align.i > Len(align.blocks)
  /\ align' = [pc |-> "done", page |-> align.page, metrics |-> align.metrics,
               result |-> IF /\ align.current_table # <<>>
                             /\ validate_table(align.current_table[1], align.metrics)
                          THEN Append(align.tables, align.current_table[1])
                          ELSE align.tables]
  /\ UNCHANGED <<validate, render, merge, borders, layout, detect, process>>

NextAlign ==
  \/ AlignEmpty
  \/ AlignStart
  \/ AlignRow
  \/ AlignClose
  \/ AlignSkip
  \/ AlignReturn

SpecAlign == InitAlign /\ [][NextAlign]_vars

\* ------------------------------------------------------------------ C8

\* the text is K >= 2 tokens separated by single spaces
SingleSpaced(text) ==
  Len(SplitWS(text)) >= 2 /\ text = Join(SplitWS(text), <<" ">>)

\* the page is N >= 2 lines of the same number K >= 2 of single-space-separated
\* tokens, and the union of the spans' boxes meets min_width and min_height
EvenLines(page, metrics) ==
  LET spans == page.spans
      idx == 1..Len(spans)
  IN /\ page.drawings = <<>>
     /\ Len(spans) >= 2
     /\ \A i \in idx : SingleSpaced(spans[i].text)
     /\ \A i \in idx : Len(SplitWS(spans[i].text)) = Len(SplitWS(spans[1].text))
     /\ MaxOf({spans[i].x1 : i \in idx}) - MinOf({spans[i].x0 : i \in idx})
          >= metrics.min_width
     /\ MaxOf({spans[i].y1 : i \in idx}) - MinOf({spans[i].y0 : i \in idx})
          >= metrics.min_height

\* C8: on a borderless page of N >= 2 lines of K >= 2 single-space-separated
\* tokens each, whose union box meets min_width and min_height, the alignment
\* detector returns exactly one table of N rows of K cells, one row per line
\* in (y0, x0) order.
C8_EvenLinesOneTable ==
  (align.pc = "done" /\ EvenLines(align.page, align.metrics)) =>
    LET lines == SortedBlocks(align.page)
    IN /\ Len(align.result) = 1
       /\ Len(align.result[1].cells) = Len(lines)
       /\ \A r \in 1..Len(lines) :
            [c \in 1..Len(align.result[1].cells[r]) |->
               align.result[1].cells[r][c].content] = SplitWS(lines[r].text)

\* ------------------------------------------------------------------ layout composer

\* line 75: link_map, a later pair of links replacing an earlier one
LinkMap(links) ==
  [t \in {links[i][1] : i \in 1..Len(links)} |->
     LET last == MaxOf({i \in 1..Len(links) : links[i][1] = t})
     IN links[last][2]]

\* lines 80-98: last_y is <<>> for None, <<y>> otherwise
RECURSIVE GroupLines(_, _, _, _)
GroupLines(blocks, current_line, last_y, lines) ==
  IF blocks = <<>>
  THEN IF current_line # <<>> THEN Append(lines, current_line) ELSE lines
  ELSE LET block == Head(blocks)
           break == last_y # <<>> /\ Abs(block.y0 - last_y[1]) > 5
       IN GroupLines(Tail(blocks),
                     IF break THEN <<block>> ELSE Append(current_line, block),
                     <<block.y0>>,
                     IF break /\ current_line # <<>>
                     THEN Append(lines, current_line) ELSE lines)

\* lines 78-98
LayoutLines(layout_blocks) ==
  LET sorted_blocks ==
        StableSort(layout_blocks,
                   [i \in 1..Len(layout_blocks) |->
                      <<layout_blocks[i].y0, layout_blocks[i].x0>>])
  IN GroupLines(sorted_blocks, <<>>, <<>>, <<>>)

MutIsHeading(line_blocks) ==
  Len(line_blocks) = 1 /\ line_blocks[1].font_size > 14

\* line 107
IsHeading(line_blocks) ==
  Len(line_blocks) = 1 /\ line_blocks[1].font_size >= 14

\* f"[{text}]({url})"
MdLink(text, url) == <<"[">> \o text \o <<"]", "(">> \o url \o <<")">>

\* lines 116-120
HeadingUnit(block, link_map) ==
  LET text == Strip(block.text)
  IN IF text \in DOMAIN link_map THEN MdLink(text, link_map[text])
     ELSE <<"#", " ">> \o text

\* lines 124-132
RECURSIVE LineWords(_)
LineWords(line_blocks) ==
  IF line_blocks = <<>> THEN <<>>
  ELSE LET block_words == SplitWS(Strip(Head(line_blocks).text))
       IN (IF Len(block_words) > 1 THEN block_words
           ELSE <<Strip(Head(line_blocks).text)>>) \o LineWords(Tail(line_blocks))

\* convert_table_to_markdown (lines 168-194)
convert_table_to_markdown(table_data) ==
  LET num_cols == MaxOf({Len(table_data[r]) : r \in 1..Len(table_data)})
      padded(row) == row \o [k \in 1..(num_cols - Len(row)) |-> <<>>]
      md_line(parts) == <<"|", " ">> \o Join(parts, <<" ", "|", " ">>) \o <<" ", "|">>
      md_lines == <<md_line(padded(table_data[1])),
                    md_line([k \in 1..num_cols |-> <<":", "-", "-", "-">>])>>
                  \o [r \in 1..(Len(table_data) - 1) |->
                        md_line(padded(table_data[r + 1]))]
  IN IF Len(table_data) < 2 THEN <<>> ELSE Join(md_lines, <<"\n">>)

MutFlushed(markdown_lines, table_data) == markdown_lines

\* lines 109-114, 147-152, 160-163: markdown_lines after the pending table
Flushed(markdown_lines, table_data) ==
  IF table_data # <<>> /\ convert_table_to_markdown(table_data) # <<>>
  THEN Append(markdown_lines, convert_table_to_markdown(table_data))
  ELSE markdown_lines

\* history of the units: held[p] is the set of lines (by their index in lines)
\* that unit p of markdown_lines was made from; after a flush the pending
\* table's lines stand with the table's unit
FlushedHeld(held, table_data, pending) ==
  IF table_data # <<>> /\ convert_table_to_markdown(table_data) # <<>>
  THEN Append(held, Range(pending))
  ELSE held

MutDocument(markdown_lines) == Join(markdown_lines, <<"\n">>)

\* line 165
Document(markdown_lines) == Join(markdown_lines, <<"\n", "\n">>)

MutIsTableHeader(in_table, words) ==
  /\ ~in_table
  /\ Len(words) >= 1
  /\ \A k \in 1..Len(words) : Len(SplitWS(words[k])) = 1

\* lines 135-139: the line opens a table
IsTableHeader(in_table, words) ==
  /\ ~in_table
  /\ Len(words) >= 2
  /\ \A k \in 1..Len(words) : Len(SplitWS(words[k])) = 1

MutIsDataRow(in_table, table_data, words) ==
  in_table /\ Len(words) > Len(table_data[1])

\* line 143: the line is a data row of the open table
IsDataRow(in_table, table_data, words) ==
  in_table /\ Len(words) >= Len(table_data[1])

\* bound of the composer's input: the number of text blocks
MaxBlocks == 3

\* the text and font size of a block: " R", "a b" and " " at sizes 13 and 14
LKinds ==
  {<<<<" ", "R">>, 14>>, <<<<" ", "R">>, 13>>,
   <<<<"a", " ", "b">>, 14>>, <<<<"a", " ", "b">>, 13>>,
   <<<<" ">>, 13>>}

\* the top edge of a block: 0 and 4 fall on one line, 10 and 20 on lines of their own
LTops == {0, 4, 10, 20}

\* links: no links, or anchors "R" (twice), "a b" and "a"
LLinks ==
  {<<>>,
   <<<<<<"R">>, <<"x">>>>, <<<<"R">>, <<"u">>>>,
     <<<<"a", " ", "b">>, <<"v">>>>, <<<<"a">>, <<"w">>>>>>}

\* the k-th of n blocks; later blocks stand further left
LBlock(k, n, kind, top) ==
  TextBlock(kind[1], 10 * (n - k), top, 10 * (n - k) + 8, top + 8, "Helvetica", kind[2])

InitLayout ==
  \E n \in 0..MaxBlocks, links \in LLinks :
    \E kinds \in [1..n -> LKinds], tops \in [1..n -> LTops] :
      /\ layout = [pc |-> "call",
                   layout |-> [k \in 1..n |-> LBlock(k, n, kinds[k], tops[k])],
                   links |-> links]
      /\ validate = Idle
      /\ render = Idle
      /\ merge = Idle
      /\ borders = Idle
      /\ align = Idle
      /\ detect = Idle
      /\ process = Idle

\* lines 71-103
LayoutGroup ==
  /\ layout.pc = "call"
  /\ layout' = [pc |-> "lines", layout |-> layout.layout, links |-> layout.links,
                link_map |-> LinkMap(layout.links),
                lines |-> LayoutLines(layout.layout), i |-> 1,
                markdown_lines |-> <<>>, table_data |-> <<>>, in_table |-> FALSE,
                held |-> <<>>, pending |-> <<>>]
  /\ UNCHANGED <<validate, render, merge, borders, align, detect, process>>

\* lines 107-121
LayoutHeading ==
  /\ layout.pc = "lines"
  /\ layout.i <= Len(layout.lines)
  /\ IsHeading(layout.lines[layout.i])
  /\ layout' = [layout EXCEPT
                  !.i = @ + 1,
                  !.markdown_lines =
                    Append(Flushed(@, layout.table_data),
                           HeadingUnit(layout.lines[layout.i][1], layout.link_map)),
                  !.held = Append(FlushedHeld(@, layout.table_data, layout.pending),
                                  {layout.i}),
                  !.pending = <<>>,
                  !.table_data = <<>>,
                  !.in_table = IF layout.table_data # <<>> THEN FALSE ELSE @]
  /\ UNCHANGED <<validate, render, merge, borders, align, detect, process>>

\* lines 135-141
LayoutOpenTable ==
  /\ layout.pc = "lines"
  /\ layout.i <= Len(layout.lines)
  /\ ~IsHeading(layout.lines[layout.i])
  /\ LET words == LineWords(layout.lines[layout.i])
     IN /\ IsTableHeader(layout.in_table, words)
        /\ layout' = [layout EXCEPT !.i = @ + 1, !.in_table = TRUE,
                                    !.table_data = <<words>>,
                                    !.pending = <<layout.i>>]
  /\ UNCHANGED <<validate, render, merge, borders, align, detect, process>>

\* lines 143-144
LayoutDataRow ==
  /\ layout.pc = "lines"
  /\ layout.i <= Len(layout.lines)
  /\ ~IsHeading(layout.lines[layout.i])
  /\ LET words == LineWords(layout.lines[layout.i])
     IN /\ ~IsTableHeader(layout.in_table, words)
        /\ IsDataRow(layout.in_table, layout.table_data, words)
        /\ layout' = [layout EXCEPT !.i = @ + 1, !.table_data = Append(@, words),
                                    !.pending = Append(@, layout.i)]
  /\ UNCHANGED <<validate, render, merge, borders, align, detect, process>>

\* lines 145-157
LayoutProse ==
  /\ layout.pc = "lines"
  /\ layout.i <= Len(layout.lines)
  /\ ~IsHeading(layout.lines[layout.i])
  /\ LET words == LineWords(layout.lines[layout.i])
         text == Join(words, <<" ">>)
     IN /\ ~IsTableHeader(layout.in_table, words)
        /\ ~IsDataRow(layout.in_table, layout.table_data, words)
        /\ layout' = [layout EXCEPT
                        !.i = @ + 1,
                        !.markdown_lines =
                          IF text # <<>>
                          THEN Append(Flushed(@, layout.table_data), text)
                          ELSE Flushed(@, layout.table_data),
                        !.held =
                          IF text # <<>>
                          THEN Append(FlushedHeld(@, layout.table_data, layout.pending),
                                      {layout.i})
                          ELSE FlushedHeld(@, layout.table_data, layout.pending),
                        !.pending = <<>>,
                        !.table_data = <<>>,
                        !.in_table = IF layout.table_data # <<>> THEN FALSE ELSE @]
  /\ UNCHANGED <<validate, render, merge, borders, align, detect, process>>

\* lines 159-165
LayoutReturn ==
  /\ layout.pc = "lines"
  /\ layout.i > Len(layout.lines)
  /\ layout' = [pc |-> "done", layout |-> layout.layout, links |-> layout.links,
                lines |-> layout.lines,
                markdown_lines |-> Flushed(layout.markdown_lines, layout.table_data),
                held |-> FlushedHeld(layout.held, layout.table_data, layout.pending),
                result |-> Document(Flushed(layout.markdown_lines, layout.table_data))]
  /\ UNCHANGED <<validate, render, merge, borders, align, detect, process>>

NextLayout ==
  \/ LayoutGroup
  \/ LayoutHeading
  \/ LayoutOpenTable
  \/ LayoutDataRow
  \/ LayoutProse
  \/ LayoutReturn

SpecLayout == InitLayout /\ [][NextLayout]_vars

\* ------------------------------------------------------------------ C9, C10

\* the units that the step on the current line adds to markdown_lines
NewUnits ==
  SubSeq(layout'.markdown_lines, Len(layout.markdown_lines) + 1,
         Len(layout'.markdown_lines))

\* a unit in one of the two forms of a heading
HeadingForm(unit) == StartsWith(unit, <<"#", " ">>) \/ StartsWith(unit, <<"[">>)

\* the step of the line loop on one line
LineStep ==
  LET line == layout.lines[layout.i]
      text == Strip(line[1].text)
      unit == IF text \in DOMAIN layout.link_map
              THEN <<"[">> \o text \o <<"]", "(">> \o layout.link_map[text] \o <<")">>
              ELSE <<"#", " ">> \o text
  IN IF Len(line) = 1 /\ line[1].font_size >= 14
     THEN \/ NewUnits = <<unit>>
          \/ /\ Len(NewUnits) = 2
             /\ layout.table_data # <<>>
             /\ StartsWith(NewUnits[1], <<"|">>)
             /\ NewUnits[2] = unit
     ELSE \A k \in 1..Len(NewUnits) : ~HeadingForm(NewUnits[k])

\* C9: a line of exactly one span of font size >= 14 is emitted as exactly one
\* unit, `[text](url)` when its trimmed text is a link anchor mapped to url and
\* `# text` otherwise (a pending table may be emitted before it); a line of two
\* or more spans, or of one span of size < 14, is never emitted as a heading.
C9_HeadingRule ==
  [][(layout.pc = "lines" /\ layout.i <= Len(layout.lines)) => LineStep]_vars

\* a line of two spans of size 14 was not taken as a heading, and the next
\* line, the single span " R" of size 14 with anchor "R", gave the link
C9_Witness ==
  /\ layout.pc = "done"
  /\ Len(layout.lines) = 2
  /\ Len(layout.lines[1]) = 2
  /\ \A k \in 1..2 : layout.lines[1][k].font_size >= 14
  /\ Len(layout.lines[2]) = 1
  /\ layout.lines[2][1].font_size >= 14
  /\ layout.lines[2][1].text = <<" ", "R">>
  /\ layout.markdown_lines[Len(layout.markdown_lines)]
       = <<"[", "R", "]", "(", "u", ")">>

\* the paragraph the claim states for the tokens
LinkedProse(words, link_map) ==
  Join([k \in 1..Len(words) |->
          IF words[k] \in DOMAIN link_map
          THEN <<"[">> \o words[k] \o <<"]", "(">> \o link_map[words[k]] \o <<")">>
          ELSE words[k]],
       <<" ">>)

\* the step emits the current line as prose
ProseStep ==
  /\ layout.pc = "lines"
  /\ layout.i <= Len(layout.lines)
  /\ ~IsHeading(layout.lines[layout.i])
  /\ layout'.table_data = <<>>
  /\ NewUnits # <<>>
  /\ ~StartsWith(NewUnits[Len(NewUnits)], <<"|">>)

\* C10: a line emitted as prose gives the paragraph of its tokens joined by
\* single spaces, every token that equals a link anchor replaced by the
\* Markdown link `[token](url)`.
C10_ProseLinks ==
  [][ProseStep =>
       NewUnits[Len(NewUnits)]
         = LinkedProse(LineWords(layout.lines[layout.i]), layout.link_map)]_vars

\* ------------------------------------------------------------------ C11

\* a token free of internal whitespace: a non-empty text without a space
IsToken(word) == word # <<>> /\ \A k \in 1..Len(word) : ~IsSpace(word[k])

\* the step of the line loop on one line, as the table rule states it
TableStep ==
  LET line == layout.lines[layout.i]
      W == LineWords(line)
      open == layout.table_data # <<>>
      heading == Len(line) = 1 /\ line[1].font_size >= 14
  IN IF ~heading /\ ~open /\ Len(W) >= 2 /\ \A k \in 1..Len(W) : IsToken(W[k])
     THEN /\ layout'.table_data = <<W>>
          /\ layout'.markdown_lines = layout.markdown_lines
     ELSE IF ~heading /\ open /\ Len(W) >= Len(layout.table_data[1])
     THEN /\ layout'.table_data = Append(layout.table_data, W)
          /\ layout'.markdown_lines = layout.markdown_lines
     ELSE layout'.table_data = <<>>

\* C11: a non-heading line of at least 2 whitespace-free tokens opens a table
\* with its tokens as header when none is open; a non-heading line with at
\* least as many tokens as the header of the open table is appended as a data
\* row; neither emits anything, and no other line adds a row to a table.
C11_TableAccretion ==
  [][(layout.pc = "lines" /\ layout.i <= Len(layout.lines)) => TableStep]_vars

\* a header and one data row are pending and nothing was emitted for them
C11_Witness ==
  /\ layout.pc = "lines"
  /\ layout.i = 3
  /\ Len(layout.table_data) = 2
  /\ layout.markdown_lines = <<>>

\* ------------------------------------------------------------------ C12

\* the units a pending table gives when it is closed: its rendering if it has
\* at least 2 rows, nothing otherwise
TableUnits(table_data) ==
  IF Len(table_data) >= 2 THEN <<convert_table_to_markdown(table_data)>> ELSE <<>>

\* the unit of the line that closes a table: its heading, or its paragraph;
\* with blank_skipped a paragraph without any character is no unit
ClosingUnits(line, link_map, blank_skipped) ==
  IF Len(line) = 1 /\ line[1].font_size >= 14
  THEN <<HeadingUnit(line[1], link_map)>>
  ELSE IF blank_skipped /\ Join(LineWords(line), <<" ">>) = <<>> THEN <<>>
  ELSE <<Join(LineWords(line), <<" ">>)>>

\* one step of the composer, seen from the table that is open before it
CloseStep(blank_skipped) ==
  LET open == layout.table_data # <<>>
  IN IF layout.i > Len(layout.lines)
     THEN \* end of input: an open table is closed and is the last unit
          /\ layout'.pc = "done"
          /\ NewUnits = (IF open THEN TableUnits(layout.table_data) ELSE <<>>)
     ELSE LET line == layout.lines[layout.i]
              closing == \/ Len(line) = 1 /\ line[1].font_size >= 14
                         \/ Len(LineWords(line)) < Len(layout.table_data[1])
          IN IF open /\ closing
             THEN /\ layout'.table_data = <<>>
                  /\ NewUnits = TableUnits(layout.table_data)
                                  \o ClosingUnits(line, layout.link_map, blank_skipped)
             ELSE IF open
             THEN /\ layout'.table_data # <<>>
                  /\ NewUnits = <<>>
             ELSE \A k \in 1..Len(NewUnits) : ~StartsWith(NewUnits[k], <<"|">>)

UnitHolds(unit, line, link_map) ==
  \/ /\ Len(line) = 1
     /\ line[1].font_size >= 14
     /\ unit = HeadingUnit(line[1], link_map)
  \/ unit = Join(LineWords(line), <<" ">>)
  \/ \E r \in 1..Len(MdLines(unit)) :
       StartsWith(MdLines(unit)[r], PipeLine(LineWords(line)))

\* C13: every line stands in at most one unit; for lines L1 before L2 in the
\* grouped order the unit holding L1 is never after the unit holding L2; and
\* the document is the units joined by exactly one blank line.
C13_LineOrder ==
  layout.pc \in {"lines", "done"} =>
    LET units == layout.markdown_lines
        held == layout.held
    IN /\ Len(held) = Len(units)
       /\ \A p \in 1..Len(units) : \A l \in held[p] :
            /\ l \in 1..Len(layout.lines)
            /\ UnitHolds(units[p], layout.lines[l], LinkMap(layout.links))
       /\ \A p \in 1..Len(units) : \A q \in 1..Len(units) :
            \A l1 \in held[p] : \A l2 \in held[q] :
              /\ l1 < l2 => p <= q
              /\ l1 = l2 => p = q
       /\ layout.pc = "done" =>
            /\ units = <<>> => layout.result = <<>>
            /\ units # <<>> => SplitSep(layout.result, <<"\n", "\n">>) = units

\* a table of two lines and the paragraph of a third line were emitted
C13_Witness ==
  /\ layout.pc = "done"
  /\ Len(layout.markdown_lines) = 2
  /\ layout.held = <<{1, 2}, {3}>>

\* ------------------------------------------------------------------ document detector

\* lines 201-231 as one walk: current_table is <<>> for None
RECURSIVE AlignWalk(_, _, _, _)
AlignWalk(blocks, tables, current_table, metrics) ==
  IF blocks = <<>>
  THEN IF current_table # <<>> /\ validate_table(current_table[1], metrics)
       THEN Append(tables, current_table[1])
       ELSE tables
  ELSE LET text_block == Head(blocks)
       IN IF is_potential_table_row(text_block, metrics)
          THEN AlignWalk(Tail(blocks), tables,
                         <<add_block_to_table(
                             UpdateBounds(IF current_table = <<>> THEN Table
                                          ELSE current_table[1], text_block),
                             text_block, metrics)>>,
                         metrics)
          ELSE IF current_table # <<>>
          THEN AlignWalk(Tail(blocks),
                         IF validate_table(current_table[1], metrics)
                         THEN Append(tables, current_table[1]) ELSE tables,
                         <<>>, metrics)
          ELSE AlignWalk(Tail(blocks), tables, <<>>, metrics)

\* detect_tables_from_alignment (lines 187-234); the only call of the engine,
\* page.get_text, is guarded inside extract_text_blocks
detect_tables_from_alignment(page, metrics) ==
  IF SortedBlocks(page) = <<>> THEN <<>>
  ELSE AlignWalk(SortedBlocks(page), <<>>, <<>>, metrics)

\* lines 326-343 as one walk
RECURSIVE MergeWalk(_, _, _)
MergeWalk(tables, merged, current) ==
  IF tables = <<>> THEN Append(merged, current)
  ELSE IF Overlaps(current, Head(tables))
  THEN MergeWalk(Tail(tables), merged, Merged(current, Head(tables)))
  ELSE MergeWalk(Tail(tables), Append(merged, current), Head(tables))

\* merge_overlapping_tables (lines 314-343)
merge_overlapping_tables(tables) ==
  IF tables = <<>> THEN <<>>
  ELSE MergeWalk(Tail(SortedByKey(tables)), <<>>, SortedByKey(tables)[1])

\* the walks agree with the step-by-step runs of the two functions
WalksAgree ==
  /\ align.pc = "done" =>
       align.result = detect_tables_from_alignment(align.page, align.metrics)
  /\ merge.pc = "done" => merge.result = merge_overlapping_tables(merge.arg)

\* bound of the document: the number of pages
MaxPages == 2

\* two lines "a b" that fill the width of the frame
DLines ==
  <<TextBlock(<<"a", " ", "b">>, 5, 10, 55, 22, "Helvetica", 10),
    TextBlock(<<"a", " ", "b">>, 5, 20, 55, 32, "Helvetica", 10)>>

\* a 2 x 2 grid of one-word spans
DGrid ==
  <<BSpan(1, <<10, 20>>, 10), BSpan(2, <<30, 40>>, 10),
    BSpan(3, <<10, 20>>, 30), BSpan(4, <<30, 40>>, 30)>>

\* two lines "a b" to the right of the frame, starting above DLines
DRight ==
  <<TextBlock(<<"a", " ", "b">>, 100, 5, 150, 17, "Helvetica", 10),
    TextBlock(<<"a", " ", "b">>, 100, 15, 150, 27, "Helvetica", 10)>>

\* pages: a bordered grid, bordered lines, borderless lines, lines under
\* horizontal rules only, borderless lines to the right, an empty page
DPages ==
  {Page(Frame, DGrid), Page(Frame, DLines), Page(<<>>, DLines),
   Page(SubSeq(Frame, 1, 2), DLines), Page(<<>>, DRight), Page(<<>>, <<>>)}

\* the calls of the document engine that may raise for a page
DCalls == {"load_page", "get_drawings", "get_text"}

InitDetect ==
  \E n \in 0..MaxPages :
    \E pages \in [1..n -> DPages], raises \in [1..n -> SUBSET DCalls] :
      /\ detect = [pc |-> "call",
                   doc |-> [k \in 1..n |-> [pages[k] EXCEPT !.raises = raises[k]]],
                   metrics |-> DefaultMetrics]
      /\ validate = Idle
      /\ render = Idle
      /\ merge = Idle
      /\ borders = Idle
      /\ align = Idle
      /\ layout = Idle
      /\ process = Idle

\* lines 114-121; log keeps, per page, what each detector returned
DetectOpen ==
  /\ detect.pc = "call"
  /\ detect' = [pc |-> "pages", doc |-> detect.doc, metrics |-> detect.metrics,
                page_num |-> 1, tables |-> <<>>, log |-> <<>>]
  /\ UNCHANGED <<validate, render, merge, borders, align, layout, process>>

\* line 123: doc[page_num] raises; nothing catches it (lines 133-135 only
\* close the document)
DetectLoadRaises ==
  /\ detect.pc = "pages"
  /\ detect.page_num <= Len(detect.doc)
  /\ "load_page" \in detect.doc[detect.page_num].raises
  /\ detect' = [pc |-> "raised", doc |-> detect.doc, metrics |-> detect.metrics,
                page_num |-> detect.page_num, tables |-> detect.tables,
                log |-> detect.log]
  /\ UNCHANGED <<validate, render, merge, borders, align, layout, process>>

MutNeedsFallback(page_tables) == TRUE

\* line 126: if not page_tables
NeedsFallback(page_tables) == page_tables = <<>>

\* lines 123-129 for a page on which the border detector finds a table
DetectByBorders ==
  /\ detect.pc = "pages"
  /\ detect.page_num <= Len(detect.doc)
  /\ "load_page" \notin detect.doc[detect.page_num].raises
  /\ LET page == detect.doc[detect.page_num]
         call == BordersCall(page, detect.metrics)
     IN /\ call.raised \/ ~NeedsFallback(call.value)
        /\ detect' =
             IF call.raised
             THEN [pc |-> "raised", doc |-> detect.doc, metrics |-> detect.metrics,
                   page_num |-> detect.page_num, tables |-> detect.tables,
                   log |-> detect.log]
             ELSE [detect EXCEPT
                     !.page_num = @ + 1,
                     !.tables = @ \o call.value,
                     !.log = Append(@, [borders |-> call.value,
                                        alignment_ran |-> FALSE,
                                        alignment |-> <<>>,
                                        page_tables |-> call.value])]
  /\ UNCHANGED <<validate, render, merge, borders, align, layout, process>>

\* lines 123-129 for a page on which the border detector finds nothing
DetectByAlignment ==
  /\ detect.pc = "pages"
  /\ detect.page_num <= Len(detect.doc)
  /\ "load_page" \notin detect.doc[detect.page_num].raises
  /\ LET page == detect.doc[detect.page_num]
         call == BordersCall(page, detect.metrics)
         page_tables == detect_tables_from_alignment(page, detect.metrics)
     IN /\ ~call.raised
        /\ NeedsFallback(call.value)
        /\ detect' = [detect EXCEPT
                        !.page_num = @ + 1,
                        !.tables = @ \o page_tables,
                        !.log = Append(@, [borders |-> call.value,
                                           alignment_ran |-> TRUE,
                                           alignment |-> page_tables,
                                           page_tables |-> page_tables])]
  /\ UNCHANGED <<validate, render, merge, borders, align, layout, process>>

\* line 131
DetectMerge ==
  /\ detect.pc = "pages"
  /\ detect.page_num > Len(detect.doc)
  /\ detect' = [pc |-> "done", doc |-> detect.doc, metrics |-> detect.metrics,
                tables |-> detect.tables, log |-> detect.log,
                result |-> merge_overlapping_tables(detect.tables)]
  /\ UNCHANGED <<validate, render, merge, borders, align, layout, process>>

NextDetect ==
  \/ DetectOpen
  \/ DetectLoadRaises
  \/ DetectByBorders
  \/ DetectByAlignment
  \/ DetectMerge

SpecDetect == InitDetect /\ [][NextDetect]_vars

\* ------------------------------------------------------------------ C14, C15

RECURSIVE Concat(_)
Concat(seqs) == IF seqs = <<>> THEN <<>> ELSE Head(seqs) \o Concat(Tail(seqs))

\* the pages that the loop has gone through
Processed == IF detect.pc \in {"pages", "done", "raised"} THEN 1..Len(detect.log) ELSE {}

\* C14: for every page the alignment detector is run if and only if the border
\* detector returned no table for it; when the border detector returns a
\* table, the page's candidates are the border detector's tables and none of
\* the tables the alignment detector finds on that page.
C14_FallbackIff ==
  /\ \A p \in Processed :
       LET page == detect.doc[p]
           entry == detect.log[p]
       IN /\ entry.borders = detect_tables_from_borders(page, detect.metrics)
          /\ entry.alignment_ran <=> entry.borders = <<>>
          /\ entry.borders # <<>> =>
               /\ entry.page_tables = entry.borders
               /\ Range(entry.page_tables)
                    \cap Range(detect_tables_from_alignment(page, detect.metrics)) = {}
  /\ Processed # {} =>
       detect.tables = Concat([p \in 1..Len(detect.log) |-> detect.log[p].page_tables])

\* the border detector's table was taken on a page where the alignment
\* detector finds a table too, and the next page fell back to alignment
C14_Witness ==
  /\ detect.pc = "done"
  /\ Len(detect.log) = 2
  /\ detect.log[1].borders # <<>>
  /\ detect_tables_from_alignment(detect.doc[1], detect.metrics) # <<>>
  /\ detect.log[2].alignment_ran
  /\ detect.log[2].alignment # <<>>

\* the page with no call that raises
Sound(page) == [page EXCEPT !.raises = {}]

\* the tables of a page when nothing raises
SoundTables(page, metrics) ==
  IF detect_tables_from_borders(Sound(page), metrics) # <<>>
  THEN detect_tables_from_borders(Sound(page), metrics)
  ELSE detect_tables_from_alignment(Sound(page), metrics)

\* C15: when the engine raises while the drawings or the text of a page are
\* read, the running detector returns no table for the page, the alignment
\* fallback is run after a failed border detector, the tables of the other
\* pages are those of a run without failure, and no exception leaves the
\* detectors or the page loop.
C15_FailureIsolated ==
  /\ \A p \in Processed :
       LET page == detect.doc[p]
           entry == detect.log[p]
       IN /\ "get_drawings" \in page.raises =>
               entry.borders = <<>> /\ entry.alignment_ran
          /\ "get_text" \in page.raises =>
               entry.borders = <<>> /\ entry.alignment_ran /\ entry.alignment = <<>>
          /\ ("get_drawings" \in page.raises /\ "get_text" \notin page.raises) =>
               entry.alignment = detect_tables_from_alignment(Sound(page), detect.metrics)
          /\ page.raises \cap {"get_drawings", "get_text"} = {} =>
               entry.page_tables = SoundTables(page, detect.metrics)
  /\ detect.pc = "raised" => "load_page" \in detect.doc[detect.page_num].raises

\* get_drawings raised on a bordered page, whose tables then came from the
\* alignment fallback, and the page after it gave its tables
C15_Witness ==
  /\ detect.pc = "done"
  /\ Len(detect.log) = 2
  /\ detect.doc[1].raises = {"get_drawings"}
  /\ detect.doc[1].drawings = Frame
  /\ detect.log[1].alignment # <<>>
  /\ detect.doc[2].raises = {}
  /\ detect.log[2].page_tables # <<>>

\* ------------------------------------------------------------------ C16

\* C16: the border detector returns at most one table, none when there is no
\* horizontal or no vertical line, and a table only if it is valid: at least
\* min_width wide and min_height high, at least 2 rows, at least 2 cells in
\* every row and the same number of cells in all rows.
C16_BordersValid ==
  borders.pc \in {"detected", "rendered"} =>
    /\ Len(borders.result) <= 1
    /\ (\/ HorizontalLines(borders.page.drawings, borders.metrics) = {}
        \/ VerticalLines(borders.page.drawings, borders.metrics) = {})
         => borders.result = <<>>
    /\ \A k \in 1..Len(borders.result) :
         LET t == borders.result[k]
         IN /\ t.x1 - t.x0 >= borders.metrics.min_width
            /\ t.y1 - t.y0 >= borders.metrics.min_height
            /\ RowsOk(t)


\* ------------------------------------------------------------------ C17

\* lines 160-170: the blocks the border detector hands to
\* convert_blocks_to_cells (<<>> when a set of lines is empty)
BorderBlocks(page, metrics) ==
  LET horizontal_lines == HorizontalLines(page.drawings, metrics)
      vertical_lines == VerticalLines(page.drawings, metrics)
  IN IF horizontal_lines = {} \/ vertical_lines = {} THEN <<>>
     ELSE extract_text_blocks(
            page, <<detect_table_from_lines(horizontal_lines, vertical_lines)>>)

\* the distinct x edges of the blocks
XEdges(blocks) == UNION {{blocks[b].x0, blocks[b].x1} : b \in 1..Len(blocks)}

\* C17: every row of convert_blocks_to_cells has exactly boundary_count + 1
\* cells, where boundary_count is the number of distinct x edges minus one,
\* also when spans share an x edge or overlap.
C17_RowLength ==
  borders.pc \in {"detected", "rendered"} =>
    LET blocks == BorderBlocks(borders.page, borders.metrics)
        cells == convert_blocks_to_cells(blocks)
    IN \A r \in 1..Len(cells) : Len(cells[r]) = Cardinality(XEdges(blocks))


\* ------------------------------------------------------------------ C18

\* the lengths of the whitespace runs between consecutive words of a trimmed
\* text; run is the length of the run being read
RECURSIVE Gaps(_, _)
Gaps(text, run) ==
  IF text = <<>> THEN <<>>
  ELSE IF IsSpace(Head(text)) THEN Gaps(Tail(text), run + 1)
  ELSE IF run > 0 THEN <<run>> \o Gaps(Tail(text), 0)
  ELSE Gaps(Tail(text), 0)

\* the three conditions of a potential table row, on the trimmed text
RowConditions(text) ==
  LET words == SplitWS(text)
      digits == Cardinality({i \in 1..Len(words) : HasDigit(words[i])})
      gaps == Gaps(text, 0)
  IN \/ "|" \in Range(text)
     \/ Len(words) >= 2 /\ digits > 0 /\ digits < Len(words)
     \/ /\ Len(words) >= 2
        /\ \A i, j \in 1..Len(gaps) : Abs(gaps[i] - gaps[j]) <= 1

\* C18: the alignment detector takes a span as a table row (the span is added
\* to the open table) if and only if its trimmed text contains a pipe, or
\* mixes words with and without digits, or has two or more words whose
\* whitespace runs all differ by at most 1; three digit-free words whose gaps
\* differ by 2 or more are not a row.
C18_PotentialRowIff ==
  [][(align.pc = "loop" /\ align.i <= Len(align.blocks)) =>
       LET block == align.blocks[align.i]
       IN /\ is_potential_table_row(block, align.metrics)
               <=> RowConditions(Strip(block.text))
          /\ align'.current_table # <<>>
               <=> RowConditions(Strip(block.text))]_vars


\* ------------------------------------------------------------------ C19

\* the spans added to the open table: the blocks walked since the last block
\* that was no potential table row
OpenRun(blocks, i, metrics) ==
  LET breaks == {k \in 1..(i - 1) : ~is_potential_table_row(blocks[k], metrics)}
      last == IF breaks = {} THEN 0 ELSE MaxOf(breaks)
  IN SubSeq(blocks, last + 1, i - 1)

\* C19: at every point of the alignment walk the box of the open table is the
\* union of the boxes of the spans added to it so far: the least x0 and y0
\* and the greatest x1 and y1, also for spans whose x0 or y0 is 0.
C19_AccumulatorBox ==
  (align.pc = "loop" /\ align.current_table # <<>>) =>
    LET added == Range(OpenRun(align.blocks, align.i, align.metrics))
        t == align.current_table[1]
    IN /\ t.x0 = MinOf({b.x0 : b \in added})
       /\ t.y0 = MinOf({b.y0 : b \in added})
       /\ t.x1 = MaxOf({b.x1 : b \in added})
       /\ t.y1 = MaxOf({b.y1 : b \in added})


\* ------------------------------------------------------------------ C20

\* the box of the table encloses the box of the cell
Encloses(table, c) ==
  /\ table.x0 <= c.x0
  /\ c.x1 <= table.x1
  /\ table.y0 <= c.y0
  /\ c.y1 <= table.y1

\* C20: the box of every table the border detector returns encloses the box
\* of each cell of each of its rows, the empty cells of the grid builder
\* included (the claim says the same of the tables of the alignment detector
\* and of the merge; the border detector is where the grid builder's cells
\* are).
C20_TableEnclosesCells ==
  borders.pc \in {"detected", "rendered"} =>
    \A k \in 1..Len(borders.result) :
      \A r \in 1..Len(borders.result[k].cells) :
        \A c \in 1..Len(borders.result[k].cells[r]) :
          Encloses(borders.result[k], borders.result[k].cells[r][c])


\* ------------------------------------------------------------------ C21

\* the alignment entry of one header cell
AlignmentEntry(cell) ==
  IF cell.alignment = "center" THEN <<":", "-", "-", "-", ":">>
  ELSE IF cell.alignment = "right" THEN <<"-", "-", "-", ":">>
  ELSE <<":", "-", "-", "-">>

\* every header cell's entry, col_span times
RECURSIVE SpannedEntries(_)
SpannedEntries(cells) ==
  IF cells = <<>> THEN <<>>
  ELSE [i \in 1..Max2(1, Head(cells).col_span) |-> AlignmentEntry(Head(cells))]
         \o SpannedEntries(Tail(cells))

\* C21: the alignment line of a rendered table holds, for every header cell
\* in order, the entry of the cell's alignment (:---: for center, ---: for
\* right, :--- otherwise), repeated col_span times.
C21_AlignmentLine ==
  (render.pc = "done" /\ Len(render.table.cells) >= 1) =>
    MdCells(MdLines(render.markdown)[2]) = SpannedEntries(render.table.cells[1])


\* ------------------------------------------------------------------ C22

\* C22: every table that detect_tables returns, after the merge, has at least
\* 2 rows, at least 2 cells in every row and the same number of cells in all
\* rows, also when the merge fused two candidates of different column counts.
C22_MergedValid ==
  detect.pc = "done" =>
    \A k \in 1..Len(detect.result) : RowsOk(detect.result[k])


\* ------------------------------------------------------------------ C23

\* the pages on which the table was detected
PagesOf(t) ==
  {i \in 1..Len(detect.log) :
     \E k \in 1..Len(detect.log[i].page_tables) :
       LET u == detect.log[i].page_tables[k]
       IN /\ <<u.x0, u.y0, u.x1, u.y1>> = <<t.x0, t.y0, t.x1, t.y1>>
          /\ Len(u.cells) = Len(t.cells)
          /\ \A r \in 1..Len(u.cells) : Len(u.cells[r]) = Len(t.cells[r])
          /\ u = t}

\* C23: detect_tables returns its tables in document order: a table detected
\* on page i never comes after a table detected on a page j > i.
C23_DocumentOrder ==
  detect.pc = "done" =>
    \A p, q \in 1..Len(detect.result) :
      p < q => \A j \in PagesOf(detect.result[p]), i \in PagesOf(detect.result[q]) :
                 j <= i


\* ------------------------------------------------------------------ C24

\* the sequence without its empty trailing pieces
RECURSIVE DropTrailingEmpty(_)
DropTrailingEmpty(pieces) ==
  IF pieces # <<>> /\ pieces[Len(pieces)] = <<>>
  THEN DropTrailingEmpty(SubSeq(pieces, 1, Len(pieces) - 1))
  ELSE pieces

\* the cell contents of a row: the trimmed pieces between the pipes without
\* the empty trailing ones, or the words of a text without a pipe
RowContents(text) ==
  LET pieces == SplitSep(text, <<"|">>)
  IN IF "|" \in Range(text)
     THEN DropTrailingEmpty([i \in 1..Len(pieces) |-> Strip(pieces[i])])
     ELSE SplitWS(text)

\* C24: a span added to the open table appends one row whose cells are, for a
\* text with a pipe, the trimmed pieces between the pipes with only the empty
\* trailing pieces dropped (an empty piece between two others stays as an
\* empty cell: 'a||b' gives 3 cells), and for a text without a pipe its
\* whitespace-separated words, one cell per word.
C24_RowCells ==
  [][(/\ align.pc = "loop"
      /\ align.i <= Len(align.blocks)
      /\ is_potential_table_row(align.blocks[align.i], align.metrics)) =>
       LET old == IF align.current_table = <<>> THEN <<>>
                  ELSE align.current_table[1].cells
           new == align'.current_table[1].cells
           contents == RowContents(Strip(align.blocks[align.i].text))
       IN /\ Len(new) = Len(old) + 1
          /\ [c \in 1..Len(new[Len(new)]) |-> new[Len(new)][c].content] = contents]_vars


\* ------------------------------------------------------------------ batch driver

\* bound of the batch: the number of files the pattern matches
MaxFiles == 2

\* a matched file, by the outcome of every call process_pdf makes for it:
\* validate_pdf, the mkdir of its output directory, the text step (the
\* extraction or the save may fail), extract_images, and the markdown step
\* (the layout extraction, the hyperlink extraction or the save may fail)
GoodFile ==
  [valid |-> TRUE, mkdir |-> TRUE, text |-> "ok", images |-> "ok", markdown |-> "ok"]

PFiles ==
  {GoodFile,
   [GoodFile EXCEPT !.valid = FALSE],
   [GoodFile EXCEPT !.mkdir = FALSE],
   [GoodFile EXCEPT !.text = "extract_fails"],
   [GoodFile EXCEPT !.text = "save_fails"],
   [GoodFile EXCEPT !.images = "fails"],
   [GoodFile EXCEPT !.markdown = "layout_fails"],
   [GoodFile EXCEPT !.markdown = "links_fails"],
   [GoodFile EXCEPT !.markdown = "save_fails"],
   [GoodFile EXCEPT !.text = "extract_fails", !.images = "fails",
                    !.markdown = "layout_fails"]}

\* extract_text_flag, extract_images_flag, extract_markdown_flag
PFlags == [text : BOOLEAN, images : BOOLEAN, markdown : BOOLEAN]

\* lines 329-351: the directories resolve, or an early return
PSetups == {"ok", "not_a_directory", "output_mkdir_fails"}

\* an output path of the k-th file: <stem>.txt, <stem>.md, <stem>_page_N.png
OutPath(k, name, page) == [file |-> k, name |-> name, page |-> page]

\* images_result.value of a file: every document of the model has two pages
ImagePaths(k) == <<OutPath(k, "png", 1), OutPath(k, "png", 2)>>

\* an entry of errors: the file and the call that failed
ErrorMsg(k, step) == [file |-> k, step |-> step]

\* Result.Ok(value) and Result.Err(error)
ResultOk(value) == [is_ok |-> TRUE, value |-> value]

ResultErr(error) == [is_ok |-> FALSE, error |-> error]

InitProcess ==
  \E n \in 0..MaxFiles, flags \in PFlags, setup \in PSetups :
    \E files \in [1..n -> PFiles] :
      /\ process = [pc |-> "call", setup |-> setup, flags |-> flags, files |-> files]
      /\ validate = Idle
      /\ render = Idle
      /\ merge = Idle
      /\ borders = Idle
      /\ align = Idle
      /\ layout = Idle
      /\ detect = Idle

\* lines 329-343: the input directory is no directory, or the output
\* directory cannot be made
ProcessSetupFails ==
  /\ process.pc = "call"
  /\ process.setup # "ok"
  /\ process' = [pc |-> "done", setup |-> process.setup, flags |-> process.flags,
                 files |-> process.files, all_output_files |-> <<>>, errors |-> <<>>,
                 result |-> ResultErr(process.setup)]
  /\ UNCHANGED <<validate, render, merge, borders, align, layout, detect>>

\* lines 346-349: no file matches the pattern
ProcessNoFiles ==
  /\ process.pc = "call"
  /\ process.setup = "ok"
  /\ process.files = <<>>
  /\ process' = [pc |-> "done", setup |-> process.setup, flags |-> process.flags,
                 files |-> process.files, all_output_files |-> <<>>, errors |-> <<>>,
                 result |-> ResultErr("no_files")]
  /\ UNCHANGED <<validate, render, merge, borders, align, layout, detect>>

\* lines 354-358
ProcessStart ==
  /\ process.pc = "call"
  /\ process.setup = "ok"
  /\ process.files # <<>>
  /\ process' = [pc |-> "file", setup |-> process.setup, flags |-> process.flags,
                 files |-> process.files, k |-> 1,
                 all_output_files |-> <<>>, errors |-> <<>>]
  /\ UNCHANGED <<validate, render, merge, borders, align, layout, detect>>

\* the unconditional end of the loop instead of the next file
MutContinue(k, n) == n + 1

\* continue (lines 367, 378, 421, 429) and the end of the loop body: the
\* index of the next file
Continue(k, n) == k + 1

\* lines 361-378: the file fails validation, or its directory cannot be made
ProcessSkip ==
  /\ process.pc = "file"
  /\ process.k <= Len(process.files)
  /\ LET file == process.files[process.k]
     IN /\ ~file.valid \/ ~file.mkdir
        /\ process' = [process EXCEPT
                         !.k = Continue(process.k, Len(process.files)),
                         !.errors = Append(@, ErrorMsg(process.k,
                                      IF ~file.valid THEN "validate" ELSE "mkdir"))]
  /\ UNCHANGED <<validate, render, merge, borders, align, layout, detect>>

\* lines 361-397: the file passes, then the text step
ProcessText ==
  /\ process.pc = "file"
  /\ process.k <= Len(process.files)
  /\ LET file == process.files[process.k]
     IN /\ file.valid /\ file.mkdir
        /\ process' = [process EXCEPT
                         !.pc = "images",
                         !.errors =
                           IF process.flags.text /\ file.text = "extract_fails"
                           THEN Append(@, ErrorMsg(process.k, "extract_text"))
                           ELSE IF process.flags.text /\ file.text = "save_fails"
                           THEN Append(@, ErrorMsg(process.k, "save_text"))
                           ELSE @,
                         !.all_output_files =
                           IF process.flags.text /\ file.text = "ok"
                           THEN Append(@, OutPath(process.k, "txt", 0))
                           ELSE @]
  /\ UNCHANGED <<validate, render, merge, borders, align, layout, detect>>

\* lines 400-409
ProcessImages ==
  /\ process.pc = "images"
  /\ LET file == process.files[process.k]
     IN process' = [process EXCEPT
                      !.pc = "markdown",
                      !.errors =
                        IF process.flags.images /\ file.images = "fails"
                        THEN Append(@, ErrorMsg(process.k, "extract_images"))
                        ELSE @,
                      !.all_output_files =
                        IF process.flags.images /\ file.images = "ok"
                        THEN @ \o ImagePaths(process.k)
                        ELSE @]
  /\ UNCHANGED <<validate, render, merge, borders, align, layout, detect>>

\* lines 412-443
ProcessMarkdown ==
  /\ process.pc = "markdown"
  /\ LET file == process.files[process.k]
         step == IF file.markdown = "layout_fails" THEN "extract_layout"
                 ELSE IF file.markdown = "links_fails" THEN "extract_hyperlinks"
                 ELSE "save_markdown"
     IN process' = [process EXCEPT
                      !.pc = "file",
                      !.k = Continue(process.k, Len(process.files)),
                      !.errors =
                        IF process.flags.markdown /\ file.markdown # "ok"
                        THEN Append(@, ErrorMsg(process.k, step))
                        ELSE @,
                      !.all_output_files =
                        IF process.flags.markdown /\ file.markdown = "ok"
                        THEN Append(@, OutPath(process.k, "md", 0))
                        ELSE @]
  /\ UNCHANGED <<validate, render, merge, borders, align, layout, detect>>

\* lines 446-454
ProcessReturn ==
  /\ process.pc = "file"
  /\ process.k > Len(process.files)
  /\ process' = [pc |-> "done", setup |-> process.setup, flags |-> process.flags,
                 files |-> process.files,
                 all_output_files |-> process.all_output_files,
                 errors |-> process.errors,
                 result |-> IF process.all_output_files # <<>>
                            THEN ResultOk(process.all_output_files)
                            ELSE ResultErr(process.errors)]
  /\ UNCHANGED <<validate, render, merge, borders, align, layout, detect>>

NextProcess ==
  \/ ProcessSetupFails
  \/ ProcessNoFiles
  \/ ProcessStart
  \/ ProcessSkip
  \/ ProcessText
  \/ ProcessImages
  \/ ProcessMarkdown
  \/ ProcessReturn

SpecProcess == InitProcess /\ [][NextProcess]_vars


\* ------------------------------------------------------------------ C25

\* what one file contributes by itself: the paths of its requested steps that
\* succeed, in the order text, images, markdown
FilePaths(file, k, flags) ==
  IF ~file.valid \/ ~file.mkdir THEN <<>>
  ELSE (IF flags.text /\ file.text = "ok" THEN <<OutPath(k, "txt", 0)>> ELSE <<>>)
         \o (IF flags.images /\ file.images = "ok" THEN ImagePaths(k) ELSE <<>>)
         \o (IF flags.markdown /\ file.markdown = "ok"
             THEN <<OutPath(k, "md", 0)>> ELSE <<>>)

\* the failures of one file by itself: its validation or its directory, or
\* every requested step that fails
FileErrors(file, k, flags) ==
  IF ~file.valid THEN <<ErrorMsg(k, "validate")>>
  ELSE IF ~file.mkdir THEN <<ErrorMsg(k, "mkdir")>>
  ELSE (IF flags.text /\ file.text = "extract_fails"
        THEN <<ErrorMsg(k, "extract_text")>> ELSE <<>>)
         \o (IF flags.text /\ file.text = "save_fails"
             THEN <<ErrorMsg(k, "save_text")>> ELSE <<>>)
         \o (IF flags.images /\ file.images = "fails"
             THEN <<ErrorMsg(k, "extract_images")>> ELSE <<>>)
         \o (IF flags.markdown /\ file.markdown = "layout_fails"
             THEN <<ErrorMsg(k, "extract_layout")>> ELSE <<>>)
         \o (IF flags.markdown /\ file.markdown = "links_fails"
             THEN <<ErrorMsg(k, "extract_hyperlinks")>> ELSE <<>>)
         \o (IF flags.markdown /\ file.markdown = "save_fails"
             THEN <<ErrorMsg(k, "save_markdown")>> ELSE <<>>)

HasText(line) == \E k \in 1..Len(LineWords(line)) : LineWords(line)[k] # <<>>

\* C26: layout_to_markdown loses no text: every line that has a word stands
\* in a unit of the returned document, as its heading, as a row of an emitted
\* table or as its paragraph, also a line that opened a table which was
\* closed with fewer than 2 rows.
C26_NoTextLost ==
  layout.pc = "done" =>
    \A l \in 1..Len(layout.lines) :
      HasText(layout.lines[l]) =>
        \E p \in 1..Len(layout.markdown_lines) :
          /\ l \in layout.held[p]
          /\ UnitHolds(layout.markdown_lines[p], layout.lines[l],
                       LinkMap(layout.links))


\* ------------------------------------------------------------------ C27

\* C27: the list merge_overlapping_tables returns for candidates with
\* well-formed boxes holds no two tables whose boxes overlap on both axes:
\* no table of the result followed by a later one passes the test of the
\* merge.
C27_ResultDisjoint ==
  merge.pc = "done" =>
    \A p \in 1..Len(merge.result) : \A q \in 1..Len(merge.result) :
      p < q => /\ ~BoxesOverlap(merge.result[p], merge.result[q])
               /\ ~Overlaps(merge.result[p], merge.result[q])


\* ------------------------------------------------------------------ C28

\* C28: at the start of every iteration of the line loop and at its exit,
\* in_table holds exactly when table_data is non-empty, and a non-empty
\* table_data has a header of at least 2 tokens and no later row with fewer
\* tokens than the header.
C28_TableDataInvariant ==
  layout.pc = "lines" =>
    /\ layout.in_table <=> layout.table_data # <<>>
    /\ layout.table_data # <<>> =>
         /\ Len(layout.table_data[1]) >= 2
         /\ \A r \in 2..Len(layout.table_data) :
              Len(layout.table_data[r]) >= Len(layout.table_data[1])

\* at the exit of the loop a table is open whose data row is longer than its
\* header
C28_Witness ==
  /\ layout.pc = "lines"
  /\ layout.i > Len(layout.lines)
  /\ layout.in_table
  /\ Len(layout.table_data) = 2
  /\ Len(layout.table_data[2]) > Len(layout.table_data[1])


\* ------------------------------------------------------------------ C29

\* bound of the composer's input with uneven lines: the number of text blocks
MaxSkewBlocks == 3

\* the text and font size of a block: "R", "S" and "a b" as text, "H" as a
\* heading
SKinds ==
  {<<<<"R">>, 13>>, <<<<"S">>, 13>>, <<<<"a", " ", "b">>, 13>>, <<<<"H">>, 14>>}

\* the top edge of a block: 0 and 4 fall on one line, 10 on the next
STops == {0, 4, 10}

\* layouts in which a block lower on its line stands further left (LBlock)
InitLayoutSkew ==
  \E n \in 0..MaxSkewBlocks :
    \E kinds \in [1..n -> SKinds], tops \in [1..n -> STops] :
      /\ layout = [pc |-> "call",
                   layout |-> [k \in 1..n |-> LBlock(k, n, kinds[k], tops[k])],
                   links |-> <<>>]
      /\ validate = Idle
      /\ render = Idle
      /\ merge = Idle
      /\ borders = Idle
      /\ align = Idle
      /\ detect = Idle
      /\ process = Idle

SpecLayoutSkew == InitLayoutSkew /\ [][NextLayout]_vars

\* the blocks of a line from left to right
LeftToRight(line) == StableSort(line, [k \in 1..Len(line) |-> <<line[k].x0, 0>>])

\* C29: the spans of one line are emitted from left to right: every unit
\* made from a line is the heading, the paragraph or the table row of the
\* line's spans taken in the order of their x0, also when the spans of the
\* line differ in y0 within the line tolerance.
C29_LeftToRight ==
  layout.pc \in {"lines", "done"} =>
    \A p \in 1..Len(layout.markdown_lines) : \A l \in layout.held[p] :
      UnitHolds(layout.markdown_lines[p], LeftToRight(layout.lines[l]),
                LinkMap(layout.links))


\* ------------------------------------------------------------------ C30

\* lines 470-492: the rows of blocks that convert_blocks_to_cells forms
BlockRows(blocks) ==
  IF blocks = <<>> THEN <<>>
  ELSE LET sorted == StableSort(blocks, [i \in 1..Len(blocks) |-> <<blocks[i].y0, 0>>])
       IN GroupRows(sorted, <<>>, sorted[1].y0, <<>>)

\* the spans of every row have positive width and do not overlap horizontally
RowsApart(rows) ==
  \A r \in 1..Len(rows) :
    /\ \A b \in 1..Len(rows[r]) : rows[r][b].x0 < rows[r][b].x1
    /\ \A a \in 1..Len(rows[r]) : \A b \in 1..Len(rows[r]) :
         a # b => (rows[r][a].x1 <= rows[r][b].x0 \/ rows[r][b].x1 <= rows[r][a].x0)

\* the rank of x among the distinct x edges, counted from 1
EdgeRank(x, edges) == Cardinality({e \in edges : e < x}) + 1

\* C30: when the spans of each row have positive width and do not overlap
\* horizontally, every span stands in exactly one cell of its row, the cell
\* whose column is the rank of the span's x0 among all distinct x edges of
\* the table (so spans of different rows with one x0 share a column), the
\* spans of a row stand from left to right, and every other cell is empty.
C30_SpanColumns ==
  borders.pc \in {"detected", "rendered"} =>
    LET blocks == BorderBlocks(borders.page, borders.metrics)
        rows == BlockRows(blocks)
        edges == XEdges(blocks)
        cells == convert_blocks_to_cells(blocks)
    IN RowsApart(rows) =>
         /\ Len(cells) = Len(rows)
         /\ \A r \in 1..Len(rows) :
              /\ Len(cells[r]) = Cardinality(edges)
              /\ \A c \in 1..Len(cells[r]) :
                   LET here == {b \in 1..Len(rows[r]) :
                                  EdgeRank(rows[r][b].x0, edges) = c}
                   IN IF here = {} THEN cells[r][c].content = <<>>
                      ELSE /\ Cardinality(here) = 1
                           /\ \A b \in here : cells[r][c].content = rows[r][b].text
              /\ \A a \in 1..Len(rows[r]) : \A b \in 1..Len(rows[r]) :
                   a < b => EdgeRank(rows[r][a].x0, edges) < EdgeRank(rows[r][b].x0, edges)

\* a table of two rows whose second row starts with an empty cell before its
\* only span
C30_Witness ==
  /\ borders.pc = "detected"
  /\ Len(borders.result) = 1
  /\ RowsApart(BlockRows(BorderBlocks(borders.page, borders.metrics)))
  /\ Len(borders.result[1].cells) = 2
  /\ Len(BlockRows(BorderBlocks(borders.page, borders.metrics))[1]) = 2
  /\ Len(BlockRows(BorderBlocks(borders.page, borders.metrics))[2]) = 1
  /\ borders.result[1].cells[2][1].content = <<>>
  /\ borders.result[1].cells[2][3].content # <<>>

====
